---- MODULE Spec2Model ----
(***************************************************************************)
(* The weekly-timeline rendering engine that heatmap.py injects into the   *)
(* map document (src/heatmap.py, the <script> of lines 207-423), together  *)
(* with the timeline data the pipeline hands to it.                        *)
(*                                                                         *)
(* Units.  Rates are the pipeline's 4-decimal rates in ten-thousandths     *)
(* (0.8333 is 8333).  Radii are the pipeline's 1-decimal metres in tenths  *)
(* of a metre (80.0 m is 800).  Times are milliseconds.  Coordinates are   *)
(* the pipeline's 6-decimal degrees in millionths of a degree.             *)
(*                                                                         *)
(* Time.  step(ts) only uses the difference ts - start, so the model keeps  *)
(* for every pulse the time elapsed since its first animation callback.    *)
(* setTimeout promises a least delay and no more: a pending timer is one   *)
(* whose callback has not run yet, and the model lets it run at any later  *)
(* moment, which includes every moment the delay allows.                   *)
(***************************************************************************)
EXTENDS Integers, Sequences, FiniteSets, TLC

\* ---------------------------------------------------------------- bounds
\* Largest number of week bins in a timeline.
MaxBins == 3
\* Largest number of animation callbacks waiting for the next frame.
MaxQueue == 2
\* Milliseconds that pass in one step of the clock.
TimeStep == 350
\* Largest rate of the colour-scale timelines, in ten-thousandths, and the
\* grid they lie on: the multiples of RateGrid and their two neighbours.
MaxRate == 12500
RateGrid == 125
\* Largest number of rows in the file the pipeline reads.
MaxRows == 3

\* ---------------------------------------------------- program constants
\* PULSE_OVERSHOOT = 0.35, in percent.
OVERSHOOT == 35
ANIM_MS == 650
\* Math.abs(d.rate - prev) > 0.01, in ten-thousandths.
THRESHOLD == 100

Abs(x) == IF x < 0 THEN -x ELSE x
Min(a, b) == IF a < b THEN a ELSE b
Max(a, b) == IF a < b THEN b ELSE a

\* ------------------------------------------------------------ the data
\* Entity ids (postal codes), in the order the pipeline's groupby sorts them.
SidOrder == <<"M5A1A1", "M6K3C3">>
Sids == {SidOrder[i] : i \in 1..Len(SidOrder)}

\* One geocoded point per postal code: every frame of an entity carries it.
LatLon(sid) ==
  IF sid = "M5A1A1" THEN [lat |-> 43653200, lon |-> -79383200]
                    ELSE [lat |-> 43638100, lon |-> -79427700]

\* (rate, radius_m, green_r) of the frames the timelines are built from, in
\* the order an entity's weeks run through them.  0.81 -> 0.82 and
\* 0.82 -> 0.83 are deltas of exactly 0.01, 0.83 -> 0.8401 is a delta of
\* 0.0101, 0.8401 -> 0.81 and every two-week jump are larger; the radii are
\* cap_radius/green_radius of the smallest and of the middle capacity.
Cycle ==
  << [rate |-> 8100, radius_m |-> 800,  green_r |-> 12070],
     [rate |-> 8200, radius_m |-> 2900, green_r |-> 22128],
     [rate |-> 8300, radius_m |-> 800,  green_r |-> 12070],
     [rate |-> 8401, radius_m |-> 2900, green_r |-> 22128] >>

\* The frame dict of lines 142-148.
Frame(sid, f) ==
  [lat |-> LatLon(sid).lat, lon |-> LatLon(sid).lon, rate |-> f.rate,
   radius_m |-> f.radius_m, green_r |-> f.green_r]

\* The frame of entity sid in week w when its weeks start o places into the
\* cycle.
FrameAt(sid, o, w) == Frame(sid, Cycle[((o + w - 1) % Len(Cycle)) + 1])

Offsets == 0..(Len(Cycle) - 1)

\* The weeks -> frame dicts of the first entity over n week bins: a dict has
\* a key for every week the entity has a row of agg in, and at least one.
Weeks(n) ==
  { [w \in D |-> FrameAt(SidOrder[1], o, w)] :
      o \in Offsets, D \in (SUBSET (1..n)) \ {{}} }

\* The second entity has a row in every week, its rate moving between 0.81
\* and 0.82 and its capacity with it.
Steady(n) == [w \in 1..n |-> FrameAt(SidOrder[2], 0, ((w - 1) % 2) + 1)]

\* shelter_data for n week bins.
Timelines(n) ==
  { [sid \in Sids |-> IF sid = SidOrder[1] THEN a ELSE Steady(n)] : a \in Weeks(n) }

\* The timelines in which the first entity has a row in every week as well.
FullTimelines(n) == {sd \in Timelines(n) : DOMAIN sd[SidOrder[1]] = 1..n}

VARIABLES
  BINS,          \* the sorted week list, as week numbers 1..N
  SHELTER_DATA,  \* sid -> week -> frame, for the weeks the entity has
  currentBin,    \* 0-based index into BINS
  playing,
  playTimer,     \* the handle last returned by setTimeout (0: null)
  circles,       \* sid -> [blue, green]
  prevRate,      \* sid -> rate last rendered
  timers,        \* pending setTimeout timers
  rafQueue,      \* callbacks passed to requestAnimationFrame, in order
  handlers,      \* TRUE once the transport controls have their listeners
  ui,            \* the slider value, week label and play-button text
  shown,         \* sid -> the frame most recently rendered for it
  ev,            \* the last timer or control event handled
  pipe           \* the pipeline run that writes the document: its
                 \* position, its input and the tables it has built

vars == <<BINS, SHELTER_DATA, currentBin, playing, playTimer, circles,
          prevRate, timers, rafQueue, handlers, ui, shown, ev, pipe>>

data == <<BINS, SHELTER_DATA, pipe>>

N == Len(BINS)

\* --------------------------------------------------------- colour scale
PALETTE == <<"#386D9C", "#4C6D8D", "#606C7D", "#9B6A4E", "#AF693F",
             "#C3682F", "#D7671F", "#EB6710", "#FF6600">>

\* Math.round(x) of the non-negative rational num/den.
Round(num, den) == (2 * num + den) \div (2 * den)

\* The rates at which (rate - 0.8) / 0.2 * (PALETTE.length - 1) is a whole
\* number and a half.  Math.round takes a half upwards, but the product is
\* computed on IEEE-754 doubles and its error decides these rates: 0.8125
\* gives 0.4999999999999982, 0.8375 gives 1.4999999999999991 and so on, all
\* below the half, while 0.8625 gives 2.5 and 0.9875 gives 7.5; at every
\* other 4-decimal rate the double rounds as the exact value does.
HalfRoundsDown == {8125, 8375, 8875, 9125, 9375, 9625}

\* The colour of a rate of exactly 0.5 taken for under-pressure.
rateColorGreenAtHalf(rate) ==
  IF rate <= 5000 THEN "#2e8b57"
  ELSE IF rate < 8000 THEN "#386D9C"
  ELSE PALETTE[Min(Round(Min(rate - 8000, 2000) * (Len(PALETTE) - 1), 2000),
                   Len(PALETTE) - 1) + 1]

rateColor(rate) ==
  IF rate < 5000 THEN "#2e8b57"
  ELSE IF rate < 8000 THEN "#386D9C"
  ELSE LET scaled  == Min(rate - 8000, 2000) * (Len(PALETTE) - 1)
           snapped == IF rate \in HalfRoundsDown THEN scaled \div 2000
                                                 ELSE Round(scaled, 2000)
       IN  PALETTE[Min(snapped, Len(PALETTE) - 1) + 1]

\* Math.round(d.rate * 100) of the tooltip.
Percent(rate) == Round(rate, 100)

\* ------------------------------------------------------ change detection
\* Math.abs(d.rate - prev) > 0.01 is evaluated on IEEE-754 doubles.  A
\* decimal difference other than 0.01 is at least 0.0001 away from the
\* threshold, far more than the rounding error, so the comparison is the
\* exact one.  For a decimal difference of exactly 0.01 the outcome depends
\* on the operands: 0.83 - 0.82 is 0.010000000000000009 (above 0.01, as is
\* 0.71 - 0.70) while 0.82 - 0.81 is 0.009999999999999898.  The pairs of the
\* frame menu whose double difference exceeds the double 0.01:
RoundsAbove == { <<8200, 8300>> }

RateChanged(rate, prev) ==
  LET diff == Abs(rate - prev)
  IN  IF diff # THRESHOLD THEN diff > THRESHOLD
      ELSE <<Min(rate, prev), Max(rate, prev)>> \in RoundsAbove

\* ----------------------------------------------------------------- pulse
PHASE1 == (ANIM_MS * 40) \div 100
PHASE2 == (ANIM_MS * 60) \div 100

\* 1 - (1 - t)^3 with t and the result in thousandths.
easeOut(t) == 1000 - (((1000 - t) * (1000 - t) * (1000 - t)) \div 1000000)

\* The radius rb that step(ts) computes el milliseconds after start.
PulseRadius(targetR, el) ==
  LET peakB == (targetR * (100 + OVERSHOOT)) \div 100
  IN  IF el < PHASE1
        THEN targetR + ((peakB - targetR) * easeOut((el * 1000) \div PHASE1)) \div 1000
      ELSE IF el < PHASE1 + PHASE2
        THEN peakB - ((peakB - targetR) * easeOut(((el - PHASE1) * 1000) \div PHASE2)) \div 1000
      ELSE targetR

\* pulse(blueCircle, targetR): start is null and step is handed to
\* requestAnimationFrame.
pulse(queue, sid, targetR) ==
  Append(queue, [sid |-> sid, targetR |-> targetR, started |-> FALSE, el |-> 0])

\* el = ts - start of one call of step(ts) for the callback p; with start
\* still null, start = ts and el is 0.
StepEl(p) == IF p.started THEN p.el ELSE 0

\* The callbacks of one animation frame, in the order they were requested:
\* each sets the radius of its circle and asks for another frame until
\* ANIM_MS have elapsed.

RECURSIVE RunCallbacks(_, _, _)
RunCallbacks(queue, circ, again) ==
  IF queue = <<>> THEN [circles |-> circ, rafQueue |-> again]
  ELSE LET p  == Head(queue)
           el == StepEl(p)
           rb == PulseRadius(p.targetR, el)
       IN  RunCallbacks(Tail(queue),
             [circ EXCEPT ![p.sid].blue.radius = rb],
             IF el < PHASE1 + PHASE2
               THEN Append(again, [p EXCEPT !.started = TRUE, !.el = el])
               ELSE again)

\* --------------------------------------------------------------- timers
\* setTimeout returns a handle no pending timer has (handles start at 1).
\* A browser never hands out a handle twice; the model hands out the least
\* free one, which is the same to the code: the only handle it keeps is
\* playTimer, and every timer set after init is stored there.
NewTimer(ts, held) ==
  CHOOSE h \in 1..(Cardinality(ts) + 1) :
    /\ \A t \in ts : t.id # h
    /\ \A g \in 1..(h - 1) : \E t \in ts : t.id = g

setTimeout(ts, held, fn) ==
  ts \cup {[id |-> NewTimer(ts, held), fn |-> fn]}

clearTimeout(ts, h) == {t \in ts : t.id # h}

\* The pending timers that run fn.
Pending(ts, fn) == {t \in ts : t.fn = fn}

Due(fn) == Pending(timers, fn)

\* ------------------------------------------------------------- renderBin
\* The last key instead of the first.
LastBin(weeks) == CHOOSE w \in DOMAIN weeks : \A v \in DOMAIN weeks : v <= w

\* Object.keys(weeks)[0]: the keys are in insertion order, and the rows of
\* agg are inserted in week order.
FirstBin(weeks) == CHOOSE w \in DOMAIN weeks : \A v \in DOMAIN weeks : w <= v

\* for (var sid in ...): the entities in insertion order, that is by first
\* week and then by postal code.
RECURSIVE InOrder(_, _)
InOrder(sd, left) ==
  IF left = {} THEN <<>>
  ELSE LET Rank(sid) == CHOOSE i \in 1..Len(SidOrder) : SidOrder[i] = sid
           Before(a, b) ==
             \/ FirstBin(sd[a]) < FirstBin(sd[b])
             \/ FirstBin(sd[a]) = FirstBin(sd[b]) /\ Rank(a) <= Rank(b)
           first == CHOOSE a \in left : \A b \in left : Before(a, b)
       IN  <<first>> \o InOrder(sd, left \ {first})

\* The halo without its setRadius.
SetHaloKeepsRadius(green, d) == [green EXCEPT !.lat = d.lat, !.lon = d.lon]

\* green.setLatLng([d.lat, d.lon]) and green.setRadius(d.green_r).
SetHalo(green, d) ==
  [green EXCEPT !.lat = d.lat, !.lon = d.lon, !.radius = d.green_r]

\* The loop body without prevRate[sid] = d.rate.
RenderFrameKeepsPrevRate(st, sid, d) ==
  LET changed == RateChanged(d.rate, st.prevRate[sid])
      c       == st.circles[sid]
      blue    == [c.blue EXCEPT !.lat = d.lat, !.lon = d.lon,
                                !.fillColor = rateColor(d.rate),
                                !.tooltip = Percent(d.rate),
                                !.radius = IF changed THEN @ ELSE d.radius_m]
  IN  [circles  |-> [st.circles EXCEPT ![sid] = [blue |-> blue, green |-> SetHalo(c.green, d)]],
       prevRate |-> st.prevRate,
       rafQueue |-> IF changed THEN pulse(st.rafQueue, sid, d.radius_m)
                               ELSE st.rafQueue,
       shown    |-> [st.shown EXCEPT ![sid] = d]]

\* The body of the loop of renderBin for one entity with frame d, on the
\* render state st = [circles, prevRate, rafQueue, shown].
RenderFrame(st, sid, d) ==
  LET prev    == st.prevRate[sid]
      changed == RateChanged(d.rate, prev)
      c       == st.circles[sid]
      blue    == [c.blue EXCEPT !.lat = d.lat, !.lon = d.lon,
                                !.fillColor = rateColor(d.rate),
                                !.tooltip = Percent(d.rate),
                                !.radius = IF changed THEN @ ELSE d.radius_m]
      green   == SetHalo(c.green, d)
  IN  [circles  |-> [st.circles EXCEPT ![sid] = [blue |-> blue, green |-> green]],
       prevRate |-> [st.prevRate EXCEPT ![sid] = d.rate],
       rafQueue |-> IF changed THEN pulse(st.rafQueue, sid, d.radius_m)
                               ELSE st.rafQueue,
       shown    |-> [st.shown EXCEPT ![sid] = d]]

\* An entity without a frame this week drawn from its first frame instead
\* of being skipped.
RenderSidFallsBack(st, sid, bin) ==
  RenderFrame(st, sid,
    IF bin \in DOMAIN SHELTER_DATA[sid]
      THEN SHELTER_DATA[sid][bin]
      ELSE SHELTER_DATA[sid][FirstBin(SHELTER_DATA[sid])])

\* var d = (SHELTER_DATA[sid] || {})[bin]; if (!d) continue;
RenderSid(st, sid, bin) ==
  IF bin \in DOMAIN SHELTER_DATA[sid]
    THEN RenderFrame(st, sid, SHELTER_DATA[sid][bin])
    ELSE st

RECURSIVE RenderLoop(_, _, _)
RenderLoop(st, sids, bin) ==
  IF sids = <<>> THEN st
  ELSE RenderLoop(RenderSid(st, Head(sids), bin), Tail(sids), bin)

\* The slider and the label exist once buildUI has run.
RenderUi(u, idx) ==
  IF u.built THEN [u EXCEPT !.slider = idx, !.label = BINS[idx + 1]] ELSE u

\* renderBin(idx) from the render state st.
Rendered(st, idx) == RenderLoop(st, InOrder(SHELTER_DATA, DOMAIN st.circles), BINS[idx + 1])

RenderState == [circles |-> circles, prevRate |-> prevRate,
                rafQueue |-> rafQueue, shown |-> shown]

\* renderBin(idx); what it writes to the slider and the label is RenderUi.
renderBin(st, idx) ==
  LET r == Rendered(st, idx)
  IN  /\ Len(r.rafQueue) <= MaxQueue
      /\ currentBin' = idx
      /\ circles' = r.circles
      /\ prevRate' = r.prevRate
      /\ rafQueue' = r.rafQueue
      /\ shown' = r.shown

\* ----------------------------------------------------------------- init
\* The two circles init creates for an entity from its first frame d.
NewCircles(d) ==
  [blue  |-> [lat |-> d.lat, lon |-> d.lon, radius |-> d.radius_m,
              fillColor |-> rateColor(d.rate), tooltip |-> -1],
   green |-> [lat |-> d.lat, lon |-> d.lon, radius |-> d.green_r]]

FirstFrame(sid) == SHELTER_DATA[sid][FirstBin(SHELTER_DATA[sid])]

\* What ev records of an event: its kind, and the week index and the playing
\* flag it found.
Event(type) == [type |-> type, from |-> currentBin, wasPlaying |-> playing]

\* The state when the script has been loaded: setTimeout(init, 200).
Loaded ==
  /\ currentBin = 0
  /\ playing = FALSE
  /\ playTimer = 0
  /\ circles = [sid \in {} |-> 0]
  /\ prevRate = [sid \in {} |-> 0]
  /\ shown = [sid \in {} |-> 0]
  /\ timers = {[id |-> 1, fn |-> "init"]}
  /\ rafQueue = <<>>
  /\ handlers = FALSE
  /\ ui = [built |-> FALSE, slider |-> 0, label |-> 0, btnPlay |-> "Play"]
  /\ ev = [type |-> "load", from |-> 0, wasPlaying |-> FALSE]

\* The pipeline run behind a document that is open in the browser: it has
\* saved the document, with the week list and the timeline the script holds.
Delivered ==
  pipe = [pc |-> "saved", nomi |-> {}, raw |-> {}, df |-> {}, bins |-> BINS,
          agg |-> {}, shelter_data |-> SHELTER_DATA, saved |-> TRUE]

\* Any timeline of at most MaxBins weeks.
InitRender ==
  /\ \E n \in 1..MaxBins :
       /\ BINS = [i \in 1..n |-> i]
       /\ SHELTER_DATA \in Timelines(n)
  /\ Loaded
  /\ Delivered

\* A timeline of at most MaxBins weeks with a frame for every entity in
\* every week.
Init ==
  /\ \E n \in 1..MaxBins :
       /\ BINS = [i \in 1..n |-> i]
       /\ SHELTER_DATA \in FullTimelines(n)
  /\ Loaded
  /\ Delivered

\* The control buildUI adds: slider at value 0, empty label, "Play" button.
buildUI(u) == [u EXCEPT !.built = TRUE]

\* init(): the circles and prevRate of every entity, renderBin(0), buildUI.
Boot ==
  \E t \in Due("init") :
    LET st == [circles  |-> [sid \in DOMAIN SHELTER_DATA |-> NewCircles(FirstFrame(sid))],
               prevRate |-> [sid \in DOMAIN SHELTER_DATA |-> FirstFrame(sid).rate],
               rafQueue |-> rafQueue,
               shown    |-> [sid \in DOMAIN SHELTER_DATA |-> FirstFrame(sid)]]
    IN  /\ renderBin(st, 0)
        /\ ui' = buildUI(RenderUi(ui, 0))
        /\ timers' = setTimeout(timers \ {t}, playTimer, "attach")
        /\ ev' = Event("init")
        /\ UNCHANGED <<data, playing, playTimer, handlers>>

\* The listeners of the slider and the three buttons, 300 ms after buildUI.
AttachHandlers ==
  \E t \in Due("attach") :
    /\ handlers' = TRUE
    /\ timers' = timers \ {t}
    /\ ev' = Event("attach")
    /\ UNCHANGED <<data, currentBin, playing, playTimer, circles, prevRate,
                   rafQueue, ui, shown>>

\* ------------------------------------------------------ transport controls
\* stopPlay() without its clearTimeout.
StopTimersKeepsTimer(ts, h) == ts

\* stopPlay(): the timers left pending, and the button text.
StopTimers(ts, h) == clearTimeout(ts, h)

StopUi(u) == IF u.built THEN [u EXCEPT !.btnPlay = "Play"] ELSE u

\* stopPlay() without playing = false.
stopPlayKeepsFlag ==
  /\ playing' = playing
  /\ timers' = StopTimers(timers, playTimer)
  /\ UNCHANGED playTimer

stopPlay ==
  /\ playing' = FALSE
  /\ timers' = StopTimers(timers, playTimer)
  /\ UNCHANGED playTimer

\* startPlay() and tick(): playTimer = setTimeout(tick, STEP_MS).
Schedule(ts) ==
  /\ timers' = setTimeout(ts, playTimer, "tick")
  /\ playTimer' = NewTimer(ts, playTimer)

startPlay ==
  /\ playing' = TRUE
  /\ Schedule(timers)

\* The slider's input listener: stopPlay(); renderBin(parseInt(this.value)).
Seek(i) ==
  /\ handlers
  /\ stopPlay
  /\ renderBin(RenderState, i)
  /\ ui' = RenderUi(StopUi(ui), i)
  /\ ev' = Event("seek")
  /\ UNCHANGED <<data, handlers>>

PrevIndex(cur) == Max(0, cur - 1)

\* Step-forward that wraps to week 0 instead of stopping at the last week.
NextIndexWraps(cur, n) == (cur + 1) % n

NextIndex(cur, n) == Min(n - 1, cur + 1)

\* btn-prev: stopPlay(); renderBin(Math.max(0, currentBin - 1)).
StepBack ==
  /\ handlers
  /\ stopPlay
  /\ renderBin(RenderState, PrevIndex(currentBin))
  /\ ui' = RenderUi(StopUi(ui), PrevIndex(currentBin))
  /\ ev' = Event("prev")
  /\ UNCHANGED <<data, handlers>>

\* btn-next: stopPlay(); renderBin(Math.min(BINS.length - 1, currentBin + 1)).
StepForward ==
  /\ handlers
  /\ stopPlay
  /\ renderBin(RenderState, NextIndex(currentBin, N))
  /\ ui' = RenderUi(StopUi(ui), NextIndex(currentBin, N))
  /\ ev' = Event("next")
  /\ UNCHANGED <<data, handlers>>

\* btn-play: playing ? stopPlay() : startPlay().
Pause ==
  /\ handlers
  /\ playing
  /\ stopPlay
  /\ ui' = StopUi(ui)
  /\ ev' = Event("pause")
  /\ UNCHANGED <<data, currentBin, circles, prevRate, rafQueue, handlers, shown>>

Play ==
  /\ handlers
  /\ ~playing
  /\ startPlay
  /\ ui' = [ui EXCEPT !.btnPlay = "Pause"]
  /\ ev' = Event("play")
  /\ UNCHANGED <<data, currentBin, circles, prevRate, rafQueue, handlers, shown>>

\* tick() that stays on the last week instead of wrapping.
TickIndexStopsAtEnd(cur, n) == Min(cur + 1, n - 1)

\* tick(): the week after the current one, or week 0 after the last.
TickIndex(cur, n) == IF cur + 1 >= n THEN 0 ELSE cur + 1

Tick ==
  \E t \in Due("tick") :
    /\ renderBin(RenderState, TickIndex(currentBin, N))
    /\ ui' = RenderUi(ui, TickIndex(currentBin, N))
    /\ Schedule(timers \ {t})
    /\ ev' = Event("tick")
    /\ UNCHANGED <<data, playing, handlers>>

\* --------------------------------------------------- frames and the clock
\* One animation frame: every callback handed to requestAnimationFrame runs.
AnimationFrame ==
  /\ rafQueue # <<>>
  /\ LET r == RunCallbacks(rafQueue, circles, <<>>)
     IN  /\ circles' = r.circles
         /\ rafQueue' = r.rafQueue
  /\ UNCHANGED <<data, currentBin, playing, playTimer, prevRate, timers,
                 handlers, ui, shown, ev>>

\* TimeStep milliseconds pass: started pulses age (past ANIM_MS every age
\* behaves alike).
Aged(queue) ==
  [i \in 1..Len(queue) |->
     IF queue[i].started
       THEN [queue[i] EXCEPT !.el = Min(@ + TimeStep, PHASE1 + PHASE2)]
       ELSE queue[i]]

Advance ==
  /\ rafQueue' = Aged(rafQueue)
  /\ rafQueue' # rafQueue
  /\ UNCHANGED <<data, currentBin, playing, playTimer, circles, prevRate,
                 timers, handlers, ui, shown, ev>>

Next ==
  \/ Boot
  \/ AttachHandlers
  \/ \E i \in 0..(N - 1) : Seek(i)
  \/ StepBack
  \/ StepForward
  \/ Play
  \/ Pause
  \/ Tick
  \/ AnimationFrame
  \/ Advance

\* The engine under every control and the auto-play timer.
Spec == Init /\ [][Next]_vars

\* The engine with the play button left alone: playback never starts, every
\* render is a seek or a step.
NextManual ==
  \/ Boot
  \/ AttachHandlers
  \/ \E i \in 0..(N - 1) : Seek(i)
  \/ StepBack
  \/ StepForward
  \/ AnimationFrame
  \/ Advance

SpecRender == InitRender /\ [][NextManual]_vars

\* ------------------------------------------------------- the colour scale
\* The 4-decimal rates of the colour-scale timelines.  The thresholds 0.5,
\* 0.8 and 1.0 and the rates whose palette position is a whole number and a
\* half are multiples of 0.0125.
Rates == {r \in 0..MaxRate : r % RateGrid \in {0, 1, RateGrid - 1}}

\* One entity with one frame in a single week, at any of the rates.
InitColour ==
  /\ BINS = <<1>>
  /\ \E r \in Rates :
       SHELTER_DATA =
         [sid \in {SidOrder[1]} |->
            [w \in {1} |-> Frame(sid, [rate |-> r, radius_m |-> Cycle[1].radius_m,
                                        green_r |-> Cycle[1].green_r])]]
  /\ Loaded
  /\ Delivered

NextColour ==
  \/ Boot
  \/ AttachHandlers
  \/ \E i \in 0..(N - 1) : Seek(i)

\* The engine on a one-frame timeline of any rate.
SpecColour == InitColour /\ [][NextColour]_vars

\* ============================================================ the pipeline
\* heatmap.py from read_csv to m.save (lines 36-148 and 427-431), and the
\* browser that opens the saved document.
\*
\* Units.  A date is a day number, day 0 being Monday 2023-12-25, so that
\* day 7 is 2024-01-01; a week bin is the number of its week, week 1 being
\* the week of 2024-01-01.  A coordinate of df is [micro, off]: micro
\* millionths of a degree plus off / 999 millionths (the jitter divides by
\* 999).  A mean is the pair of a sum and a count.  Capacities and occupied
\* counts are whole numbers.

\* The engine's variables, which the pipeline leaves alone.
engine == <<currentBin, playing, playTimer, circles, prevRate, timers,
            rafQueue, handlers, ui, shown, ev>>

\* pd.Period("2024-01-01", freq="W"), as a week number.
START_WEEK == 1
DAYS_PER_WEEK == 7
\* CAP_MIN_R = 80 and CAP_MAX_R = 500 metres, in tenths of a metre.
CAP_MIN_R == 800
CAP_MAX_R == 5000
\* GREEN_MIN_M = 0.75 * 1609.344 = 1207.008 and GREEN_MAX_M = 2.0 * 1609.344
\* = 3218.688 metres, in thousandths of a metre.
GREEN_MIN_M == 1207008
GREEN_MAX_M == 3218688
\* The divisor of jitter().
JITTER_DEN == 999

\* ------------------------------------------------------------- the input
\* A cell of the file: a value that parses, or one that is missing or does
\* not parse.
Cell(v) == [ok |-> TRUE, v |-> v]
NaN == [ok |-> FALSE, v |-> 0]
NA == [ok |-> FALSE, v |-> ""]

Raw(id, code, day, cap, occ) ==
  [id |-> id, code |-> code, date |-> day, cap |-> cap, occ |-> occ]

\* The rows a file is made of.  Rows 1 and 2 are two records of one entity
\* in one week, the second with its code in lower case and with a space;
\* rows 3-5 have other weeks, another entity and another capacity; row 6 is
\* dated before the start week; row 7 has a letter no postal code starts
\* with, row 8 no code, row 9 a capacity that is no number, row 10 a date
\* that is no date; row 11 has capacity 0.
Roster ==
  << Raw(1,  Cell("M5A1A1"),  Cell(7),  Cell(50),  Cell(40)),
     Raw(2,  Cell("m5a 1a1"), Cell(9),  Cell(70),  Cell(60)),
     Raw(3,  Cell("M5A1A1"),  Cell(14), Cell(60),  Cell(30)),
     Raw(4,  Cell("M6K3C3"),  Cell(8),  Cell(60),  Cell(49)),
     Raw(5,  Cell("M6K 3C3"), Cell(15), Cell(200), Cell(190)),
     Raw(6,  Cell("M5A1A1"),  Cell(3),  Cell(80),  Cell(80)),
     Raw(7,  Cell("D5A1A1"),  Cell(7),  Cell(40),  Cell(10)),
     Raw(8,  NA,              Cell(8),  Cell(40),  Cell(10)),
     Raw(9,  Cell("M6K3C3"),  Cell(8),  NaN,       Cell(5)),
     Raw(10, Cell("M6K3C3"),  NaN,      Cell(40),  Cell(10)),
     Raw(11, Cell("M6K3C3"),  Cell(16), Cell(0),   Cell(0)) >>

\* The files: any choice of at most MaxRows of the rows.
Files ==
  { {Roster[i] : i \in I} :
      I \in {J \in SUBSET (1..Len(Roster)) : Cardinality(J) <= MaxRows} }

\* The geocoding collaborator is the set of the codes and area prefixes it
\* has an entry for: it has one for the first code, and either has or lacks
\* one for the second code and for the second code's area.
Nominatims ==
  { {"M5A1A1", "M5A", "M6K3C3", "M6K"}, {"M5A1A1", "M5A", "M6K"},
    {"M5A1A1", "M5A", "M6K3C3"}, {"M5A1A1", "M5A"} }

\* The centre of an area prefix.
Area(fsa) ==
  IF fsa = "M5A" THEN [lat |-> 43655000, lon |-> -79360000]
                 ELSE [lat |-> 43640000, lon |-> -79430000]

\* The entry of a key the collaborator has.
Entry(key) == IF key \in Sids THEN LatLon(key) ELSE Area(key)

\* nomi.query_postal_code for one key: latitude and longitude, or NaN in
\* both.
query_postal_code(nomi, key) ==
  IF key \in nomi
    THEN [found |-> TRUE,  lat |-> [micro |-> Entry(key).lat, off |-> 0],
                           lon |-> [micro |-> Entry(key).lon, off |-> 0]]
    ELSE [found |-> FALSE, lat |-> [micro |-> 0, off |-> 0],
                           lon |-> [micro |-> 0, off |-> 0]]

\* Before the script runs: the engine's variables have no script yet.
NoDocument ==
  /\ BINS = <<>>
  /\ SHELTER_DATA = [sid \in {} |-> 0]
  /\ currentBin = 0
  /\ playing = FALSE
  /\ playTimer = 0
  /\ circles = [sid \in {} |-> 0]
  /\ prevRate = [sid \in {} |-> 0]
  /\ shown = [sid \in {} |-> 0]
  /\ timers = {}
  /\ rafQueue = <<>>
  /\ handlers = FALSE
  /\ ui = [built |-> FALSE, slider |-> 0, label |-> 0, btnPlay |-> "Play"]
  /\ ev = [type |-> "none", from |-> 0, wasPlaying |-> FALSE]

InitPipeline ==
  /\ \E file \in Files, nomi \in Nominatims :
       pipe = [pc |-> "clean", nomi |-> nomi, raw |-> file, df |-> {},
               bins |-> <<>>, agg |-> {}, shelter_data |-> [sid \in {} |-> 0],
               saved |-> FALSE]
  /\ NoDocument

\* --------------------------------------------------------- 1) load + clean
Lower == <<"a", "b", "c", "d", "e", "f", "g", "h", "i", "j", "k", "l", "m",
           "n", "o", "p", "q", "r", "s", "t", "u", "v", "w", "x", "y", "z">>
Upper == <<"A", "B", "C", "D", "E", "F", "G", "H", "I", "J", "K", "L", "M",
           "N", "O", "P", "Q", "R", "S", "T", "U", "V", "W", "X", "Y", "Z">>
Digit == {"0", "1", "2", "3", "4", "5", "6", "7", "8", "9"}
\* [ABCEGHJ-NPRSTVXY] and [ABCEGHJ-NPRSTV-Z]
FirstLetter == {"A", "B", "C", "E", "G", "H", "J", "K", "L", "M", "N", "P",
                "R", "S", "T", "V", "X", "Y"}
Letter == FirstLetter \cup {"W", "Z"}

CharAt(str, i) == SubSeq(str, i, i)

ToUpper(c) ==
  IF \E i \in 1..Len(Lower) : Lower[i] = c
    THEN Upper[CHOOSE i \in 1..Len(Lower) : Lower[i] = c]
    ELSE c

\* .str.upper().str.replace(" ", "")
RECURSIVE Normalised(_)
Normalised(str) ==
  IF Len(str) = 0 THEN ""
  ELSE LET c == CharAt(str, 1)
       IN  (IF c = " " THEN "" ELSE ToUpper(c)) \o Normalised(SubSeq(str, 2, Len(str)))

\* .str.fullmatch(pattern)
fullmatch(str) ==
  /\ Len(str) = 6
  /\ CharAt(str, 1) \in FirstLetter /\ CharAt(str, 2) \in Digit
  /\ CharAt(str, 3) \in Letter      /\ CharAt(str, 4) \in Digit
  /\ CharAt(str, 5) \in Letter      /\ CharAt(str, 6) \in Digit

\* df after section 1: the rows with a code that matches once normalised,
\* numbers for both capacities and a date.
Cleaned(raw) ==
  { [id |-> r.id, code |-> Normalised(r.code.v),
     FSA |-> SubSeq(Normalised(r.code.v), 1, 3),
     cap |-> r.cap.v, occ |-> r.occ.v, day |-> r.date.v] :
      r \in { q \in raw : /\ q.code.ok
                           /\ fullmatch(Normalised(q.code.v))
                           /\ q.cap.ok /\ q.occ.ok /\ q.date.ok } }

Clean ==
  /\ pipe.pc = "clean"
  /\ pipe' = [pipe EXCEPT !.pc = "geocode", !.df = Cleaned(pipe.raw)]
  /\ UNCHANGED <<BINS, SHELTER_DATA, engine>>

\* ------------------------------------------------------------- 2) geocode
\* geo_map that takes the area entry whenever there is one.
geo_mapAreaFirst(nomi, code) ==
  LET area == query_postal_code(nomi, SubSeq(code, 1, 3))
  IN  IF area.found THEN area ELSE query_postal_code(nomi, code)

\* The row of geo_map for a code: the precise entry, or with that missing
\* the entry of the first three characters.
geo_map(nomi, code) ==
  LET full == query_postal_code(nomi, code)
  IN  IF full.found THEN full ELSE query_postal_code(nomi, SubSeq(code, 1, 3))

\* merge(geo_map, how="left") and dropna(subset=["lat", "lon"]).
Merged(df, nomi) ==
  { [id |-> r.id, code |-> r.code, FSA |-> r.FSA, cap |-> r.cap, occ |-> r.occ,
     day |-> r.day, lat |-> geo_map(nomi, r.code).lat,
     lon |-> geo_map(nomi, r.code).lon] :
      r \in {q \in df : geo_map(nomi, q.code).found} }

\* int(hashlib.md5(code.encode()).hexdigest()[:8], 16), as the pair of
\* h // 1000 and h % 1000 (h itself exceeds 32 bits for the first code):
\* 3247952045 and 2278927885.
Md5Head(code) ==
  IF code = "M5A1A1" THEN [div1000 |-> 3247952, mod1000 |-> 45]
                     ELSE [div1000 |-> 2278927, mod1000 |-> 885]

\* jitter that differs from record to record of one code.
jitterPerRow(r) ==
  [lat |-> 4000 * ((Md5Head(r.code).mod1000 + r.id) % 1000) - 2000 * JITTER_DEN,
   lon |-> 4000 * (Md5Head(r.code).div1000 % 1000) - 2000 * JITTER_DEN]

\* jitter(code) of the row's code: ((h % 1000) / 999 - 0.5) * 0.004 degrees
\* and the same of (h // 1000) % 1000, in 1/999 millionths of a degree.
jitter(r) ==
  [lat |-> 4000 * (Md5Head(r.code).mod1000 % 1000) - 2000 * JITTER_DEN,
   lon |-> 4000 * (Md5Head(r.code).div1000 % 1000) - 2000 * JITTER_DEN]

\* df.duplicated(subset=["lat", "lon", POST_COL], keep=False)
dupe(df, r) ==
  \E q \in df : q.id # r.id /\ q.lat = r.lat /\ q.lon = r.lon /\ q.code = r.code

Jittered(df) ==
  { IF dupe(df, r)
      THEN [r EXCEPT !.lat.off = @ + jitter(r).lat, !.lon.off = @ + jitter(r).lon]
      ELSE r : r \in df }

\* Section 2: geo_map with its fallback, the merge and the jitter.
Geocode ==
  /\ pipe.pc = "geocode"
  /\ pipe' = [pipe EXCEPT !.pc = "bin", !.df = Jittered(Merged(pipe.df, pipe.nomi))]
  /\ UNCHANGED <<BINS, SHELTER_DATA, engine>>

\* ------------------------------------------------------- 3) weekly binning
\* dt.to_period("W"): the Monday-to-Sunday week of the day.
BinOf(day) == day \div DAYS_PER_WEEK

Binned(df) ==
  { [id |-> r.id, code |-> r.code, FSA |-> r.FSA, cap |-> r.cap, occ |-> r.occ,
     day |-> r.day, lat |-> r.lat, lon |-> r.lon, BIN |-> BinOf(r.day)] : r \in df }

\* sorted(...) of a set of week numbers.
RECURSIVE Sorted(_)
Sorted(set) ==
  IF set = {} THEN <<>>
  ELSE LET least == CHOOSE w \in set : \A v \in set : w <= v
       IN  <<least>> \o Sorted(set \ {least})

\* bins: the weeks of df at or after the start period, in order.
SurvivingBins(df) == Sorted({w \in {r.BIN : r \in df} : w >= START_WEEK})

\* Binning that goes on with an empty week list.
BinNoRaise ==
  /\ pipe.pc = "bin"
  /\ pipe' = [pipe EXCEPT !.pc = "aggregate", !.df = Binned(pipe.df),
                           !.bins = SurvivingBins(Binned(pipe.df))]
  /\ UNCHANGED <<BINS, SHELTER_DATA, engine>>

\* Section 3 up to the raise: the BIN column and bins, or with no week left
\* ValueError, which ends the run.
Bin ==
  /\ pipe.pc = "bin"
  /\ LET binned == Binned(pipe.df)
         bins   == SurvivingBins(binned)
     IN  pipe' = [pipe EXCEPT !.pc = IF bins = <<>> THEN "aborted" ELSE "aggregate",
                              !.df = binned, !.bins = bins]
  /\ UNCHANGED <<BINS, SHELTER_DATA, engine>>

\* ------------------------------------------------------------ aggregation
RECURSIVE SumCap(_)
SumCap(rows) ==
  IF rows = {} THEN 0
  ELSE LET r == CHOOSE q \in rows : TRUE IN r.cap + SumCap(rows \ {r})

RECURSIVE SumOcc(_)
SumOcc(rows) ==
  IF rows = {} THEN 0
  ELSE LET r == CHOOSE q \in rows : TRUE IN r.occ + SumOcc(rows \ {r})

\* The sum of a group in place of its mean.
MeanAsSum(sum, n) == [sum |-> sum, n |-> 1]

\* "mean" of a group of n rows.
Mean(sum, n) == [sum |-> sum, n |-> n]

\* The keys of groupby(["BIN", POST_COL, "lat", "lon"]).
GroupKeys(df) ==
  {[BIN |-> r.BIN, code |-> r.code, lat |-> r.lat, lon |-> r.lon] : r \in df}

Group(df, k) ==
  {r \in df : r.BIN = k.BIN /\ r.code = k.code /\ r.lat = k.lat /\ r.lon = k.lon}

\* One row of agg before rate: the two means of its group.
Sample(df, k) ==
  LET g == Group(df, k)
  IN  [BIN |-> k.BIN, code |-> k.code, lat |-> k.lat, lon |-> k.lon,
       total_cap |-> Mean(SumCap(g), Cardinality(g)),
       occupied  |-> Mean(SumOcc(g), Cardinality(g))]

\* occupied / total_cap.replace({0: nan}) of a row of agg: a quotient, or
\* NaN for a mean capacity of 0.
Rate(a) ==
  IF a.total_cap.sum = 0
    THEN [ok |-> FALSE, num |-> 0, den |-> 1]
    ELSE [ok |-> TRUE, num |-> a.occupied.sum * a.total_cap.n,
                       den |-> a.total_cap.sum * a.occupied.n]

\* agg: one row per group, with a rate, of a week in bins.
Aggregated(df, bins) ==
  { a \in {Sample(df, k) : k \in GroupKeys(df)} :
      Rate(a).ok /\ \E i \in 1..Len(bins) : bins[i] = a.BIN }

Aggregate ==
  /\ pipe.pc = "aggregate"
  /\ pipe' = [pipe EXCEPT !.pc = "scale", !.agg = Aggregated(pipe.df, pipe.bins)]
  /\ UNCHANGED <<BINS, SHELTER_DATA, engine>>

\* ------------------------------------------------------ 4) radius scaling
\* Python's round() to the nearest whole unit of num / den (den > 0), an
\* exact half going to the even neighbour.
PyRound(num, den) ==
  LET q == num \div den
      r == num % den
  IN  IF 2 * r < den THEN q
      ELSE IF 2 * r > den THEN q + 1
      ELSE IF q % 2 = 0 THEN q ELSE q + 1

RECURSIVE GCD(_, _)
GCD(a, b) == IF b = 0 THEN a ELSE GCD(b, a % b)

\* a <= b and a < b of two means.
MeanLeq(a, b) == a.sum * b.n <= b.sum * a.n

\* The range with cap_min lowered by 1 instead of cap_max raised.
CapRangeLowersMin(agg) ==
  LET caps == {a.total_cap : a \in agg}
      lo   == CHOOSE c \in caps : \A d \in caps : MeanLeq(c, d)
      hi   == CHOOSE c \in caps : \A d \in caps : MeanLeq(d, c)
  IN  [cap_min |-> IF MeanLeq(hi, lo) THEN [sum |-> hi.sum - hi.n, n |-> hi.n]
                                      ELSE lo,
       cap_max |-> hi]

\* cap_min and cap_max of agg["total_cap"], a cap_max that is not above
\* cap_min replaced by cap_min + 1.  (With agg empty both are NaN and no
\* radius is ever computed.)
CapRange(agg) ==
  LET caps == {a.total_cap : a \in agg}
      lo   == CHOOSE c \in caps : \A d \in caps : MeanLeq(c, d)
      hi   == CHOOSE c \in caps : \A d \in caps : MeanLeq(d, c)
  IN  [cap_min |-> lo,
       cap_max |-> IF MeanLeq(hi, lo) THEN [sum |-> lo.sum + lo.n, n |-> lo.n]
                                      ELSE hi]

\* max(0.0, min(1.0, (cap - cap_min) / (cap_max - cap_min))) as a fraction
\* in lowest terms.
Position(cap, range) ==
  LET lo  == range.cap_min
      hi  == range.cap_max
      num == (cap.sum * lo.n - lo.sum * cap.n) * hi.n
      den == cap.n * (hi.sum * lo.n - lo.sum * hi.n)
      g   == GCD(num, den)
  IN  IF num <= 0 THEN [num |-> 0, den |-> 1]
      ELSE IF num >= den THEN [num |-> 1, den |-> 1]
      ELSE [num |-> num \div g, den |-> den \div g]

\* cap_radius(cap), in tenths of a metre.
cap_radius(cap, range) ==
  LET x == Position(cap, range)
  IN  PyRound(CAP_MIN_R * x.den + x.num * (CAP_MAX_R - CAP_MIN_R), x.den)

\* green_radius(cap), in tenths of a metre: GREEN_MIN_M + x * (GREEN_MAX_M -
\* GREEN_MIN_M) is whole thousandths plus rest / x.den of one, and round(.,
\* 1) takes it to the nearest hundred thousandths.
green_radius(cap, range) ==
  LET x     == Position(cap, range)
      span  == GREEN_MAX_M - GREEN_MIN_M
      part  == (span % x.den) * x.num
      whole == GREEN_MIN_M + (span \div x.den) * x.num + (part \div x.den)
      rest  == part % x.den
      t     == whole \div 100
      u     == whole % 100
  IN  IF u < 50 THEN t
      ELSE IF u > 50 \/ rest > 0 THEN t + 1
      ELSE IF t % 2 = 0 THEN t ELSE t + 1

\* agg with its radius_m and green_r columns.
Scaled(agg) ==
  { [BIN |-> a.BIN, code |-> a.code, lat |-> a.lat, lon |-> a.lon,
     total_cap |-> a.total_cap, occupied |-> a.occupied,
     radius_m |-> cap_radius(a.total_cap, CapRange(agg)),
     green_r  |-> green_radius(a.total_cap, CapRange(agg))] : a \in agg }

Scale ==
  /\ pipe.pc = "scale"
  /\ pipe' = [pipe EXCEPT !.pc = "assemble", !.agg = Scaled(pipe.agg)]
  /\ UNCHANGED <<BINS, SHELTER_DATA, engine>>

\* --------------------------------------------------- 5) the timeline dict
\* round(., 6) of a coordinate, in millionths of a degree.
Round6(c) == c.micro + PyRound(c.off, JITTER_DEN)

\* round(., 4) of a rate, in ten-thousandths.
Round4(rate) == PyRound(rate.num * 10000, rate.den)

\* The frame dict of a row of agg.
FrameOfRow(a) ==
  [lat |-> Round6(a.lat), lon |-> Round6(a.lon), rate |-> Round4(Rate(a)),
   radius_m |-> a.radius_m, green_r |-> a.green_r]

\* The position of a code among the codes, as groupby sorts them.
CodeRank(code) == CHOOSE i \in 1..Len(SidOrder) : SidOrder[i] = code

\* The rows of agg in the order of its index: by week, code, lat and lon.
RowBefore(a, b) ==
  \/ a.BIN < b.BIN
  \/ a.BIN = b.BIN /\ CodeRank(a.code) < CodeRank(b.code)
  \/ a.BIN = b.BIN /\ a.code = b.code /\ a.lat.micro < b.lat.micro
  \/ a.BIN = b.BIN /\ a.code = b.code /\ a.lat.micro = b.lat.micro
       /\ a.lat.off < b.lat.off
  \/ a.BIN = b.BIN /\ a.code = b.code /\ a.lat = b.lat
       /\ a.lon.micro < b.lon.micro
  \/ a.BIN = b.BIN /\ a.code = b.code /\ a.lat = b.lat
       /\ a.lon.micro = b.lon.micro /\ a.lon.off <= b.lon.off

RECURSIVE Rows(_)
Rows(agg) ==
  IF agg = {} THEN <<>>
  ELSE LET first == CHOOSE a \in agg : \A b \in agg : RowBefore(a, b)
       IN  <<first>> \o Rows(agg \ {first})

\* shelter_data[sid][row["BIN"]] = {...}: the dict with the entry set, a
\* new key added and an old one overwritten.
Put(sd, a) ==
  LET weeks == IF a.code \in DOMAIN sd THEN sd[a.code] ELSE [w \in {} |-> 0]
      after == [w \in (DOMAIN weeks) \cup {a.BIN} |->
                  IF w = a.BIN THEN FrameOfRow(a) ELSE weeks[w]]
  IN  [sid \in (DOMAIN sd) \cup {a.code} |-> IF sid = a.code THEN after ELSE sd[sid]]

\* for _, row in agg.iterrows()
RECURSIVE Assembled(_, _)
Assembled(rows, sd) ==
  IF rows = <<>> THEN sd ELSE Assembled(Tail(rows), Put(sd, Head(rows)))

Assemble ==
  /\ pipe.pc = "assemble"
  /\ pipe' = [pipe EXCEPT !.pc = "map",
                          !.shelter_data = Assembled(Rows(pipe.agg), [sid \in {} |-> 0])]
  /\ UNCHANGED <<BINS, SHELTER_DATA, engine>>

\* ----------------------------------------------- 5)-8) the map and the save
\* folium.Map(location=[center_lat, center_lon]) and the layers added to it.
\* The centre is the mean of agg's coordinates, NaN when agg has no row;
\* the map library is free to reject such a location, which ends the run.
BuildMap ==
  /\ pipe.pc = "map"
  /\ \/ pipe' = [pipe EXCEPT !.pc = "save"]
     \/ pipe.agg = {} /\ pipe' = [pipe EXCEPT !.pc = "aborted"]
  /\ UNCHANGED <<BINS, SHELTER_DATA, engine>>

\* m.save(str(output_path)): the document with the script and its data.
Save ==
  /\ pipe.pc = "save"
  /\ pipe' = [pipe EXCEPT !.pc = "saved", !.saved = TRUE]
  /\ UNCHANGED <<BINS, SHELTER_DATA, engine>>

\* The browser opens the saved document: the script's data are the
\* json.dumps of bins and shelter_data, and init is set to run.
Open ==
  /\ pipe.saved
  /\ ev.type = "none"
  /\ BINS' = pipe.bins
  /\ SHELTER_DATA' = pipe.shelter_data
  /\ timers' = setTimeout(timers, playTimer, "init")
  /\ ev' = [type |-> "load", from |-> 0, wasPlaying |-> FALSE]
  /\ UNCHANGED <<pipe, currentBin, playing, playTimer, circles, prevRate,
                 rafQueue, handlers, ui, shown>>

NextPipeline ==
  \/ Clean
  \/ Geocode
  \/ Bin
  \/ Aggregate
  \/ Scale
  \/ Assemble
  \/ BuildMap
  \/ Save
  \/ Open
  \/ Boot

\* One run of the pipeline on a file, and the document opened.
SpecPipeline == InitPipeline /\ [][NextPipeline]_vars

\* ======================================================== the claims
\* The entity has a frame in the week at index idx.
HasFrame(sid, idx) == BINS[idx + 1] \in DOMAIN SHELTER_DATA[sid]

FrameOf(sid, idx) == SHELTER_DATA[sid][BINS[idx + 1]]

\* The animation callbacks of an entity that wait for the next frame.
PulsesOf(queue, sid) == {k \in 1..Len(queue) : queue[k].sid = sid}

\* C1: once no animation callback is scheduled any more, the primary radius
\* of every entity is the radius_m of the frame most recently rendered for
\* it.
LatestIntentWins ==
  rafQueue = <<>> =>
    \A sid \in DOMAIN circles : circles[sid].blue.radius = shown[sid].radius_m

\* C2: at most one pulse animation loop is in flight per entity.
OnePulsePerEntity ==
  \A sid \in DOMAIN circles : Cardinality(PulsesOf(rafQueue, sid)) <= 1

\* The week at index idx is on display: every entity with a frame in it
\* shows that frame.
Displays(sh, idx) ==
  \A sid \in DOMAIN sh : HasFrame(sid, idx) => sh[sid] = FrameOf(sid, idx)

\* C3: after the first render exactly one auto-play timer is pending while
\* playing is true and none while it is false, and a pending one is the one
\* playTimer names.
TimerMatchesPlaying ==
  ui.built =>
    /\ Cardinality(Due("tick")) = (IF playing THEN 1 ELSE 0)
    /\ \A t \in Due("tick") : t.id = playTimer

\* C3 witness: paused again after playback has moved the display on.
PausedAfterPlayback ==
  /\ ev.type = "pause"
  /\ ev.from # 0
  /\ ~playing
  /\ Due("tick") = {}

\* What a seek or a step to index idx leaves behind.
PausedAt(idx) ==
  /\ ~playing'
  /\ Pending(timers', "tick") = {}
  /\ currentBin' = idx
  /\ Displays(shown', idx)

\* C4: a seek or a step cancels the auto-play timer, renders its target week
\* and leaves the engine paused on it; play schedules one timer and enters
\* Playing on the week that was displayed.
SeekStepPlayTransitions ==
  [][ /\ \A i \in 0..(N - 1) : Seek(i) => PausedAt(i)
      /\ StepBack => PausedAt(IF currentBin = 0 THEN 0 ELSE currentBin - 1)
      /\ StepForward => PausedAt(IF currentBin = N - 1 THEN currentBin ELSE currentBin + 1)
      /\ Play => /\ playing'
                 /\ Cardinality(Pending(timers', "tick")) = 1
                 /\ currentBin' = currentBin
                 /\ shown' = shown ]_vars

\* C4 witness: a seek during playback has left the engine paused on another
\* week.
SeekStoppedPlayback ==
  /\ ev.type = "seek"
  /\ ev.wasPlaying
  /\ ev.from # currentBin
  /\ ~playing
  /\ Due("tick") = {}

\* C5 as stated: every tick while playing renders the week at index
\* (current + 1) mod N, keeps playing with one timer pending, and renders a
\* week other than the one before it.
TickAdvancesToAnotherWeek ==
  [][ (Tick /\ playing) =>
        /\ currentBin' = (currentBin + 1) % N
        /\ Displays(shown', currentBin')
        /\ playing'
        /\ Cardinality(Pending(timers', "tick")) = 1
        /\ currentBin' # currentBin ]_vars

\* C5 as amended: the same, the rendered week being another one than before
\* when there are at least two week bins.
TickAdvancesModN ==
  [][ (Tick /\ playing) =>
        /\ currentBin' = (currentBin + 1) % N
        /\ Displays(shown', currentBin')
        /\ playing'
        /\ Cardinality(Pending(timers', "tick")) = 1
        /\ (N >= 2 => currentBin' # currentBin) ]_vars

\* C5 witness: a tick on the last of several weeks has wrapped to week 0.
TickWrapped ==
  /\ ev.type = "tick"
  /\ N >= 2
  /\ ev.from = N - 1
  /\ currentBin = 0
  /\ playing

\* C6: the week index stays within [0, last index]; step-backward at 0 and
\* step-forward at the last index leave it where it is.
IndexStaysInRange ==
  [][ /\ currentBin' \in 0..(N - 1)
      /\ (StepBack /\ currentBin = 0) => currentBin' = 0
      /\ (StepForward /\ currentBin = N - 1) => currentBin' = N - 1 ]_vars

\* C6 witness: step-forward on the last of several weeks.
StepForwardAtEnd ==
  /\ ev.type = "next"
  /\ N >= 2
  /\ ev.from = N - 1
  /\ currentBin = N - 1

\* A step that renders a week for circles that exist: a seek, a step or a
\* tick.
RenderStep ==
  \/ \E i \in 0..(N - 1) : Seek(i)
  \/ StepBack
  \/ StepForward
  \/ Tick

\* The step has handed a new pulse of the entity to requestAnimationFrame.
PulseStarted(sid) ==
  \E k \in (Len(rafQueue) + 1)..Len(rafQueue') : rafQueue'[k].sid = sid

\* C7: a render starts a pulse for an entity with a frame exactly when the
\* frame's rate differs from the rate last rendered for the entity by more
\* than 0.01, and the frame's rate is the last-rendered rate afterwards.
PulseIffAboveThreshold ==
  [][ RenderStep =>
        \A sid \in DOMAIN circles :
          HasFrame(sid, currentBin') =>
            /\ PulseStarted(sid) <=>
                 Abs(FrameOf(sid, currentBin').rate - prevRate[sid]) > THRESHOLD
            /\ prevRate'[sid] = FrameOf(sid, currentBin').rate ]_vars

\* C8: the render that init performs starts no pulse, and leaves every
\* primary circle at the radius it was created with.
InitialRenderStartsNoPulse ==
  [][ Boot =>
        /\ rafQueue' = <<>>
        /\ \A sid \in DOMAIN circles' :
             circles'[sid].blue.radius = FirstFrame(sid).radius_m ]_vars

\* C8 witness: init has run on a timeline in which an entity has no frame in
\* the first week and several later ones.
InitWithLateEntity ==
  /\ ev.type = "init"
  /\ rafQueue = <<>>
  /\ \E sid \in DOMAIN circles :
       /\ ~HasFrame(sid, 0)
       /\ Cardinality(DOMAIN SHELTER_DATA[sid]) >= 2

MissingFrameIsNoUpdate ==
  [][ RenderStep =>
        /\ SubSeq(rafQueue', 1, Len(rafQueue)) = rafQueue
        /\ \A sid \in DOMAIN circles :
             IF HasFrame(sid, currentBin')
               THEN /\ shown'[sid] = FrameOf(sid, currentBin')
                    /\ prevRate'[sid] = FrameOf(sid, currentBin').rate
               ELSE /\ circles'[sid] = circles[sid]
                    /\ prevRate'[sid] = prevRate[sid]
                    /\ shown'[sid] = shown[sid]
                    /\ ~PulseStarted(sid) ]_vars

\* C10 witness: a seek or step to another week, in which one entity has no
\* frame and keeps showing an earlier one while another entity shows its
\* frame of that week.
RenderedWithMissingFrame ==
  /\ ev.type \in {"seek", "prev", "next"}
  /\ ev.from # currentBin
  /\ \E sid \in DOMAIN circles :
       /\ ~HasFrame(sid, currentBin)
       /\ \E other \in DOMAIN circles :
            /\ HasFrame(other, currentBin)
            /\ shown[other] = FrameOf(other, currentBin)
            /\ shown[other] # FirstFrame(other)

\* The palette positions k (0-based) nearest to where the rate lies when
\* [0.8, 1.0] is mapped linearly onto [0, last index], rates above 1.0
\* taken as 1.0.
NearestIndex(rate, k) ==
  2 * Abs(k * 2000 - (Min(rate, 10000) - 8000) * (Len(PALETTE) - 1)) <= 2000

Aggregated_pc == {"scale", "assemble", "map", "save", "saved"}
Scaled_pc == {"assemble", "map", "save", "saved"}
Assembled_pc == {"map", "save", "saved"}

\* The rows of agg of one entity and week.
SamplesOf(week, code) == {a \in pipe.agg : a.BIN = week /\ a.code = code}

\* The file holds the two records of "M5A1A1" in week 1, with capacities 50
\* and 70 and occupied counts 40 and 60.
TwoRecordsOneWeek == {Roster[1], Roster[2]} \subseteq pipe.raw

\* What the two records become up to the timeline: one sample of mean
\* capacity 60 and mean occupied 50, and a frame of rate 0.8333.
TwoRecordsAggregate ==
  /\ pipe.pc \in Aggregated_pc =>
       /\ Cardinality(SamplesOf(1, "M5A1A1")) = 1
       /\ \A a \in SamplesOf(1, "M5A1A1") :
            /\ a.total_cap.sum = 60 * a.total_cap.n
            /\ a.occupied.sum = 50 * a.occupied.n
  /\ pipe.pc \in Assembled_pc => pipe.shelter_data["M5A1A1"][1].rate = 8333

\* C12 as stated: the two records aggregate by mean to capacity 60,
\* occupied 50 and rate 0.8333, and the circle is drawn in the first entry
\* of the palette.
MeanScenarioFirstEntry ==
  TwoRecordsOneWeek =>
    /\ TwoRecordsAggregate
    /\ "M5A1A1" \in DOMAIN circles =>
         circles["M5A1A1"].blue.fillColor = PALETTE[1]

\* C12 as amended: the same aggregation, the circle drawn in the second
\* entry of the palette (index 1).
MeanScenarioSecondEntry ==
  TwoRecordsOneWeek =>
    /\ TwoRecordsAggregate
    /\ "M5A1A1" \in DOMAIN circles =>
         circles["M5A1A1"].blue.fillColor = PALETTE[2]

\* C12 witness: the document made from the two records has been opened and
\* init has drawn the frame of rate 0.8333.
MeanScenarioDrawn ==
  /\ TwoRecordsOneWeek
  /\ ev.type = "init"
  /\ "M5A1A1" \in DOMAIN shown
  /\ shown["M5A1A1"].rate = 8333

\* Every row of agg has the same mean capacity.
OneCapacity ==
  /\ pipe.agg # {}
  /\ \A a, b \in pipe.agg : MeanLeq(a.total_cap, b.total_cap)

\* The range used has cap_max exactly 1 above cap_min.
UnitRange(range) ==
  range.cap_max.sum * range.cap_min.n - range.cap_min.sum * range.cap_max.n
    = range.cap_min.n * range.cap_max.n

ValidCodes == {r.code : r \in Cleaned(pipe.raw)}
RowsOf(code) == {r \in pipe.df : r.code = code}
FoundAt(key) == query_postal_code(pipe.nomi, key).found

\* The rows of a code all lie at the entry of key, jitter apart.
ResolvedTo(code, key) ==
  /\ {r.id : r \in RowsOf(code)} = {r.id : r \in {q \in Cleaned(pipe.raw) : q.code = code}}
  /\ \A r \in RowsOf(code) :
       r.lat.micro = Entry(key).lat /\ r.lon.micro = Entry(key).lon

\* C14: once geocoded, the rows of a valid code lie at the precise entry
\* when there is one, else at the entry of its 3-character prefix when
\* there is one, else the code is in no row, sample or timeline; every row
\* that goes on has an entry behind its coordinates.
TwoTierResolution ==
  pipe.pc \notin {"clean", "geocode"} =>
    /\ \A code \in ValidCodes :
         IF FoundAt(code) THEN ResolvedTo(code, code)
         ELSE IF FoundAt(SubSeq(code, 1, 3)) THEN ResolvedTo(code, SubSeq(code, 1, 3))
         ELSE /\ RowsOf(code) = {}
              /\ \A a \in pipe.agg : a.code # code
              /\ code \notin DOMAIN pipe.shelter_data
    /\ \A r \in pipe.df : FoundAt(r.code) \/ FoundAt(r.FSA)
    /\ \A a \in pipe.agg : FoundAt(a.code) \/ FoundAt(SubSeq(a.code, 1, 3))
    /\ \A sid \in DOMAIN pipe.shelter_data :
         FoundAt(sid) \/ FoundAt(SubSeq(sid, 1, 3))

\* C14 witness: a saved timeline with one entity at its precise entry and
\* one at the entry of its area prefix.
SavedWithFallback ==
  /\ pipe.pc = "saved"
  /\ \E s, t \in DOMAIN pipe.shelter_data :
       /\ FoundAt(s)
       /\ ~FoundAt(t) /\ FoundAt(SubSeq(t, 1, 3))

\* C15: a run that finds no week at or after the start week, or no row
\* left after cleaning and geocoding, ends in the error and never saves; the
\* document is saved, and opened, only with a week list that is not empty;
\* and a run that has a week ends in an error only when agg has no row at
\* all, never for the rows validation dropped.
AbortsBeforeSave ==
  /\ pipe.pc = "aborted" => ~pipe.saved
  /\ (pipe.pc \notin {"clean", "geocode", "bin"}
        /\ (pipe.df = {} \/ SurvivingBins(pipe.df) = <<>>))
       => pipe.pc = "aborted"
  /\ pipe.saved => pipe.bins # <<>> /\ pipe.df # {}
  /\ ev.type # "none" => pipe.saved /\ BINS = pipe.bins
  /\ (pipe.pc = "aborted" /\ pipe.bins # <<>>) => pipe.agg = {}

\* C15 witness: a run whose rows were partly dropped by validation and
\* partly dated before the start week has ended in the error.
AbortedWithoutWeeks ==
  /\ pipe.pc = "aborted"
  /\ pipe.df # {}
  /\ pipe.bins = <<>>
  /\ Cardinality(pipe.raw) > Cardinality(pipe.df)
  /\ ~pipe.saved

\* C16: a seek or step to the week on display starts no pulse and leaves
\* the frame shown, the last-rendered rate, the halo, and the position,
\* colour and tooltip of the primary circle of every entity as they were;
\* the primary radius stays or goes to the radius of the frame shown.
RerenderChangesNothing ==
  [][ (RenderStep /\ currentBin' = currentBin) =>
        /\ rafQueue' = rafQueue
        /\ prevRate' = prevRate
        /\ shown' = shown
        /\ \A sid \in DOMAIN circles :
             /\ circles'[sid].green = circles[sid].green
             /\ circles'[sid].blue.lat = circles[sid].blue.lat
             /\ circles'[sid].blue.lon = circles[sid].blue.lon
             /\ circles'[sid].blue.fillColor = circles[sid].blue.fillColor
             /\ circles'[sid].blue.radius \in
                  {circles[sid].blue.radius, shown[sid].radius_m} ]_vars

\* C16 witness: the week on display has been rendered again while a pulse
\* of its first render was still running.
RerenderedDuringPulse ==
  /\ ev.type \in {"seek", "prev", "next"}
  /\ ev.from = currentBin
  /\ \E k \in 1..Len(rafQueue) :
       rafQueue[k].targetR = shown[rafQueue[k].sid].radius_m

\* The frames of the timeline, as (entity, week) pairs.
FramesOf(sd) == UNION {{<<sid, w>> : w \in DOMAIN sd[sid]} : sid \in DOMAIN sd}

\* C17: after the jitter the rows of one code share one (lat, lon); agg has
\* at most one row per week and code; the timeline has one frame for every
\* row of agg, the frame of that row; and every week of the timeline is in
\* the week list.
OneSamplePerWeekAndCode ==
  /\ pipe.pc \notin {"clean", "geocode"} =>
       \A r, q \in pipe.df : r.code = q.code => r.lat = q.lat /\ r.lon = q.lon
  /\ \A a, b \in pipe.agg : (a.BIN = b.BIN /\ a.code = b.code) => a = b
  /\ pipe.pc \in Assembled_pc =>
       /\ Cardinality(FramesOf(pipe.shelter_data)) = Cardinality(pipe.agg)
       /\ \A a \in pipe.agg : pipe.shelter_data[a.code][a.BIN] = FrameOfRow(a)
  /\ \A sid \in DOMAIN pipe.shelter_data :
       \A w \in DOMAIN pipe.shelter_data[sid] :
         \E i \in 1..Len(pipe.bins) : pipe.bins[i] = w

\* C17 witness: a saved timeline of an entity with two records in one week
\* and one in another, all three moved by the same jitter.
SavedJitteredEntity ==
  /\ pipe.pc = "saved"
  /\ \E r, q, p \in pipe.df :
       /\ r.id # q.id /\ r.code = q.code /\ r.BIN = q.BIN
       /\ p.code = r.code /\ p.BIN # r.BIN
       /\ r.lat.off # 0
       /\ r.BIN \in DOMAIN pipe.shelter_data[r.code]
       /\ p.BIN \in DOMAIN pipe.shelter_data[r.code]
====
